---- MODULE Spec2Model ----
(***************************************************************************)
(* jw::hash_map: open addressing, linear probing, backward-shift erase.    *)
(* The table is the triple (m_buckets, m_size, m_empty_key); a slot is a   *)
(* record [first, second].  Slot index i of the code is element i + 1 of   *)
(* the sequence m_buckets.  std::size_t is W bits wide in the model.       *)
(***************************************************************************)
EXTENDS Integers, Sequences, FiniteSets, TLC

\* ------------------------------------------------------------------ bounds
W == 8                          \* bits of std::size_t in the model
MaxHint == 8                    \* constructor capacity hints are 0..MaxHint
MaxCount == 17                  \* largest argument of rehash
MaxReserve == 9                 \* largest argument of reserve

SizeMod == 2 ^ W
Keys == {1, 9, 17, 7, 15}       \* user keys; std::hash<int> is the identity
Values == {0, 1}                \* T() and one other mapped value
ValuedKeys == {9, 15}           \* the keys that are inserted with value 1 too
InsertArgs == {a \in Keys \X Values : a[2] = 0 \/ a[1] \in ValuedKeys}
Hints == 0 .. MaxHint
\* requests of 0 and just above the multiples of the minimum capacity
RehashCounts == {n \in 0 .. MaxCount : n = 0 \/ n % 8 = 1}
ReserveCounts == {n \in 0 .. MaxReserve : n % 4 = 1}
CopyCounts == {1, 4}            \* bucket counts given to the copy constructor
ReservedCounts == 1 .. MaxReserve   \* arguments of a reserve that is tracked

\* -------------------------------------------------- size_t bit arithmetic
RECURSIVE BitAnd(_, _)
BitAnd(a, b) ==
    IF a = 0 \/ b = 0 THEN 0
    ELSE (a % 2) * (b % 2) + 2 * BitAnd(a \div 2, b \div 2)

RECURSIVE BitOr(_, _)
BitOr(a, b) ==
    IF a = 0 THEN b
    ELSE IF b = 0 THEN a
    ELSE (IF a % 2 = 1 \/ b % 2 = 1 THEN 1 ELSE 0)
         + 2 * BitOr(a \div 2, b \div 2)

Max(a, b) == IF a < b THEN b ELSE a

\* ------------------------------------------------ power_of_two_growth_policy
compute_index(hash, capacity) == BitAnd(hash, (capacity - 1) % SizeMod)

highest_capacity == 2 ^ (W - 1)

\* the loop  for (i = 1; i < digits; i <<= 1) min_capacity |= min_capacity >> i
RECURSIVE closest_loop(_, _)
closest_loop(m, i) ==
    IF i < W THEN closest_loop(BitOr(m, m \div (2 ^ i)), 2 * i) ELSE m

compute_closest_capacity(min_capacity) ==
    IF min_capacity > highest_capacity
    THEN highest_capacity
    ELSE (closest_loop((min_capacity - 1) % SizeMod, 1) + 1) % SizeMod

\* the branch  if (min_capacity > highest_capacity) { assert(false && ...); ... }
\* is entered; the assert aborts the program unless NDEBUG is defined
closest_capacity_asserts(min_capacity) == min_capacity > highest_capacity

minimum_capacity == 8

key_type == 0                   \* key_type(), the default empty key

\* DEFAULT_MAX_LOAD_FACTOR = 0.500f, kept as the exact fraction LoadNum/LoadDen:
\* the float products and quotients of the code are exact for the sizes and
\* bucket counts of this model (all far below 2^24)
LoadNum == 1
LoadDen == 2

\* --------------------------------------------------------------- hash_map
hasher(key) == key % SizeMod

bucket_count(t) == Len(t.m_buckets)
size(t) == t.m_size
end(t) == Len(t.m_buckets)
slot(t, idx) == t.m_buckets[idx + 1]

key_to_idx(t, key) == compute_index(hasher(key), bucket_count(t))
probe_next(t, idx) == compute_index((idx + 1) % SizeMod, bucket_count(t))
\* diff as a plain signed difference, without the wrap-around
diff_signed(t, a, b) == a - b

diff(t, a, b) ==
    compute_index((bucket_count(t) + (a - b)) % SizeMod, bucket_count(t))

\* hash_map(size_type bucket_count, key_type empty_key, alloc)
hash_map(count, empty_key) ==
    [m_empty_key |-> empty_key,
     m_buckets   |-> [i \in 1 .. compute_closest_capacity(count) |->
                        [first |-> empty_key, second |-> 0]],
     m_size      |-> 0]

\* hash_map(): hash_map(minimum_capacity(), key_type())
hash_map_default == hash_map(minimum_capacity, key_type)

\* a.swap(b): the pair (a, b) after the three std::swap calls
swap(a, b) ==
    <<[m_buckets |-> b.m_buckets, m_size |-> b.m_size,
       m_empty_key |-> b.m_empty_key],
      [m_buckets |-> a.m_buckets, m_size |-> a.m_size,
       m_empty_key |-> a.m_empty_key]>>

RECURSIVE rehash(_, _)

\* check_for_rehash comparing against the bucket count, not half of it
check_for_rehash_full(t) ==
    IF size(t) + 1 > bucket_count(t)
    THEN rehash(t, (bucket_count(t) * 4) % SizeMod)
    ELSE t

\* the condition of check_for_rehash: size() + 1 > bucket_count() * 0.5
rehash_due(t) == (size(t) + 1) * LoadDen > bucket_count(t) * LoadNum

check_for_rehash(t) ==
    IF rehash_due(t)
    THEN rehash(t, (bucket_count(t) * 4) % SizeMod)
    ELSE t

\* emplace_probe assigning the value of a key that is already present
RECURSIVE emplace_probe_overwrite(_, _, _, _)
emplace_probe_overwrite(t, key, val, idx) ==
    IF slot(t, idx).first = t.m_empty_key
    THEN [table    |-> [t EXCEPT !.m_buckets[idx + 1] =
                                       [first |-> key, second |-> val],
                                 !.m_size = (@ + 1) % SizeMod],
          idx      |-> idx,
          inserted |-> TRUE]
    ELSE IF slot(t, idx).first = key
    THEN [table    |-> [t EXCEPT !.m_buckets[idx + 1].second = val],
          idx      |-> idx,
          inserted |-> FALSE]
    ELSE emplace_probe_overwrite(t, key, val, probe_next(t, idx))

\* the probe loop of emplace_impl, from slot idx on
RECURSIVE emplace_probe(_, _, _, _)
emplace_probe(t, key, val, idx) ==
    IF slot(t, idx).first = t.m_empty_key
    THEN [table    |-> [t EXCEPT !.m_buckets[idx + 1] =
                                       [first |-> key, second |-> val],
                                 !.m_size = (@ + 1) % SizeMod],
          idx      |-> idx,
          inserted |-> TRUE]
    ELSE IF slot(t, idx).first = key
    THEN [table |-> t, idx |-> idx, inserted |-> FALSE]
    ELSE emplace_probe(t, key, val, probe_next(t, idx))

emplace_impl(t, key, val) ==
    LET g == check_for_rehash(t)
    IN  emplace_probe(g, key, val, key_to_idx(g, key))

\* the loop of hash_map(const hash_map& other, size_type): cbegin .. cend
RECURSIVE copy_loop(_, _, _)
copy_loop(self, other, idx) ==
    IF idx >= bucket_count(other) THEN self
    ELSE IF slot(other, idx).first = other.m_empty_key
    THEN copy_loop(self, other, idx + 1)
    ELSE copy_loop(emplace_impl(self, slot(other, idx).first,
                                slot(other, idx).second).table,
                   other, idx + 1)

\* the copy constructor starting its walk one slot late
hash_map_copy_late(other, count) ==
    copy_loop(hash_map(count, other.m_empty_key), other, 1)

hash_map_copy(other, count) ==
    copy_loop(hash_map(count, other.m_empty_key), other, 0)

\* rehash without the floor size() / max_load_factor()
rehash_no_floor(t, count) ==
    LET c1 == Max(minimum_capacity, count)
        c3 == compute_closest_capacity(c1)
    IN  swap(t, hash_map_copy(t, c3))[1]

rehash(t, count) ==
    LET c1 == Max(minimum_capacity, count)
        c2 == Max(c1, (size(t) * LoadDen) \div LoadNum)
        c3 == compute_closest_capacity(c2)
    IN  swap(t, hash_map_copy(t, c3))[1]

reserve(t, count) == rehash(t, (count * LoadDen + LoadNum - 1) \div LoadNum)

\* the probe loop of find_impl, from slot idx on
RECURSIVE find_probe(_, _, _)
find_probe(t, key, idx) ==
    IF slot(t, idx).first = key THEN idx
    ELSE IF slot(t, idx).first = t.m_empty_key THEN end(t)
    ELSE find_probe(t, key, probe_next(t, idx))

\* find_impl looking at the home slot only
find_impl_home(t, key) ==
    IF slot(t, key_to_idx(t, key)).first = key
    THEN key_to_idx(t, key)
    ELSE end(t)

find_impl(t, key) == find_probe(t, key, key_to_idx(t, key))

\* the loop moving every entry of the run back, whatever its ideal slot is
RECURSIVE erase_loop_compact(_, _, _)
erase_loop_compact(t, bucket, idx) ==
    IF slot(t, idx).first = t.m_empty_key
    THEN [t EXCEPT !.m_buckets[bucket + 1].first = t.m_empty_key,
                   !.m_size = (@ - 1) % SizeMod]
    ELSE erase_loop_compact([t EXCEPT !.m_buckets[bucket + 1] = slot(t, idx)],
                            idx, probe_next(t, idx))

\* the loop returning after the first entry it has moved back
RECURSIVE erase_loop_one_move(_, _, _)
erase_loop_one_move(t, bucket, idx) ==
    IF slot(t, idx).first = t.m_empty_key
    THEN [t EXCEPT !.m_buckets[bucket + 1].first = t.m_empty_key,
                   !.m_size = (@ - 1) % SizeMod]
    ELSE LET ideal == key_to_idx(t, slot(t, idx).first)
         IN  IF diff(t, bucket, ideal) < diff(t, idx, ideal)
             THEN [t EXCEPT !.m_buckets[bucket + 1] = slot(t, idx),
                            !.m_buckets[idx + 1].first = t.m_empty_key,
                            !.m_size = (@ - 1) % SizeMod]
             ELSE erase_loop_one_move(t, bucket, probe_next(t, idx))

\* the loop returning without the vacating write
RECURSIVE erase_loop_no_vacate(_, _, _)
erase_loop_no_vacate(t, bucket, idx) ==
    IF slot(t, idx).first = t.m_empty_key
    THEN [t EXCEPT !.m_size = (@ - 1) % SizeMod]
    ELSE LET ideal == key_to_idx(t, slot(t, idx).first)
         IN  IF diff(t, bucket, ideal) < diff(t, idx, ideal)
             THEN erase_loop_no_vacate(
                      [t EXCEPT !.m_buckets[bucket + 1] = slot(t, idx)],
                      idx, probe_next(t, idx))
             ELSE erase_loop_no_vacate(t, bucket, probe_next(t, idx))

\* the loop of erase_impl(iterator): bucket is the slot being vacated
RECURSIVE erase_loop(_, _, _)
erase_loop(t, bucket, idx) ==
    IF slot(t, idx).first = t.m_empty_key
    THEN [t EXCEPT !.m_buckets[bucket + 1].first = t.m_empty_key,
                   !.m_size = (@ - 1) % SizeMod]
    ELSE LET ideal == key_to_idx(t, slot(t, idx).first)
         IN  IF diff(t, bucket, ideal) < diff(t, idx, ideal)
             THEN erase_loop([t EXCEPT !.m_buckets[bucket + 1] = slot(t, idx)],
                             idx, probe_next(t, idx))
             ELSE erase_loop(t, bucket, probe_next(t, idx))

\* erase_impl vacating the slot without shifting the run behind it
erase_impl_it_no_shift(t, it) ==
    [t EXCEPT !.m_buckets[it + 1].first = t.m_empty_key,
              !.m_size = (@ - 1) % SizeMod]

erase_impl_it(t, it) == erase_loop(t, it, probe_next(t, it))

erase_impl_key(t, key) ==
    LET it == find_impl(t, key)
    IN  IF it # end(t)
        THEN [table |-> erase_impl_it(t, it), ret |-> 1]
        ELSE [table |-> t, ret |-> 0]

\* clear leaving m_size as it was
clear_keep_size(t) ==
    [t EXCEPT !.m_buckets =
                 [i \in 1 .. Len(t.m_buckets) |->
                    [t.m_buckets[i] EXCEPT !.first = t.m_empty_key]]]

clear(t) ==
    [t EXCEPT !.m_buckets =
                 [i \in 1 .. Len(t.m_buckets) |->
                    IF t.m_buckets[i].first # t.m_empty_key
                    THEN [t.m_buckets[i] EXCEPT !.first = t.m_empty_key]
                    ELSE t.m_buckets[i]],
              !.m_size = 0]

\* rehash giving up the old array before the replacement is built
rehash_bad_alloc_released(t, count) == hash_map(0, t.m_empty_key)

\* rehash when m_buckets.resize of `other` throws std::bad_alloc: the
\* constructor of other never returns, swap(other) is not reached
rehash_bad_alloc(t, count) ==
    LET c1 == Max(minimum_capacity, count)
        c2 == Max(c1, (size(t) * LoadDen) \div LoadNum)
        c3 == compute_closest_capacity(c2)
    IN  IF c3 > 0 THEN t ELSE rehash(t, count)

reserve_bad_alloc(t, count) ==
    rehash_bad_alloc(t, (count * LoadDen + LoadNum - 1) \div LoadNum)

\* emplace_impl when the rehash of check_for_rehash throws: the probe loop is
\* not reached
emplace_impl_bad_alloc(t, key, val) ==
    rehash_bad_alloc(t, (bucket_count(t) * 4) % SizeMod)

\* at_impl inserting T() for an absent key, as operator[] does
at_impl_inserting(t, key) ==
    LET r == emplace_impl(t, key, 0)
    IN  [table |-> r.table, found |-> TRUE, val |-> slot(r.table, r.idx).second]

\* at_impl: the table after the call, whether the key was found (else
\* std::out_of_range is thrown) and the value referred to
at_impl(t, key) ==
    LET it == find_impl(t, key)
    IN  IF it # end(t)
        THEN [table |-> t, found |-> TRUE, val |-> slot(t, it).second]
        ELSE [table |-> t, found |-> FALSE, val |-> 0]

count_impl(t, key) == IF find_impl(t, key) = end(t) THEN 0 ELSE 1

\* one iteration moving the entry at idx back whatever its ideal slot is
erase_step_always_move(t, bucket, idx) ==
    IF slot(t, idx).first = t.m_empty_key
    THEN [table |-> [t EXCEPT !.m_buckets[bucket + 1].first = t.m_empty_key,
                              !.m_size = (@ - 1) % SizeMod],
          bucket |-> bucket, idx |-> idx, done |-> TRUE]
    ELSE [table |-> [t EXCEPT !.m_buckets[bucket + 1] = slot(t, idx)],
          bucket |-> idx, idx |-> probe_next(t, idx), done |-> FALSE]

\* one iteration of the loop of erase_impl(iterator): at most one slot is
\* written; done when the iteration returns from erase_impl
erase_step(t, bucket, idx) ==
    IF slot(t, idx).first = t.m_empty_key
    THEN [table |-> [t EXCEPT !.m_buckets[bucket + 1].first = t.m_empty_key,
                              !.m_size = (@ - 1) % SizeMod],
          bucket |-> bucket, idx |-> idx, done |-> TRUE]
    ELSE LET ideal == key_to_idx(t, slot(t, idx).first)
         IN  IF diff(t, bucket, ideal) < diff(t, idx, ideal)
             THEN [table |-> [t EXCEPT !.m_buckets[bucket + 1] = slot(t, idx)],
                   bucket |-> idx, idx |-> probe_next(t, idx), done |-> FALSE]
             ELSE [table |-> t,
                   bucket |-> bucket, idx |-> probe_next(t, idx), done |-> FALSE]

\* ---------------------------------------------------- hash_map_iterator
\* advance_past_empty stepping over one empty slot at most
advance_past_empty_once(t, idx) ==
    IF idx < bucket_count(t) /\ slot(t, idx).first = t.m_empty_key
    THEN idx + 1
    ELSE idx

\* while (idx_ < m_buckets.size() && m_buckets[idx_].first == m_empty_key) ++idx_
RECURSIVE advance_past_empty(_, _)
advance_past_empty(t, idx) ==
    IF idx < bucket_count(t) /\ slot(t, idx).first = t.m_empty_key
    THEN advance_past_empty(t, idx + 1)
    ELSE idx

\* begin(): hash_map_iterator(this), idx_ = 0 then advance_past_empty()
begin(t) == advance_past_empty(t, 0)

\* operator++: ++idx_; advance_past_empty()
iterator_increment(t, idx) == advance_past_empty(t, idx + 1)

\* the slots dereferenced by  for (it = begin(); it != end(); ++it)
RECURSIVE traverse(_, _)
traverse(t, it) ==
    IF it = end(t) THEN <<>>
    ELSE <<it>> \o traverse(t, iterator_increment(t, it))

\* ------------------------------------------------------------------ state
VARIABLES m_buckets, m_size, m_empty_key, call, ub, erasing, reserved

vars == <<m_buckets, m_size, m_empty_key, call, ub, erasing, reserved>>

\* erasing is the activation of erase_impl(iterator) when the erase is run one
\* loop iteration at a time: its local variables bucket and idx while the
\* loop runs, NoErase when no erase is in progress
NoErase == [pc |-> "idle", bucket |-> 0, idx |-> 0]

\* reserved is the argument n of the last reserve(n) made on a table of at
\* most n elements, as long as only insert, emplace and erase calls that keep
\* size() <= n have followed it; NoReserve otherwise
NoReserve == -1

this == [m_buckets |-> m_buckets, m_size |-> m_size,
         m_empty_key |-> m_empty_key]
this_next == [m_buckets |-> m_buckets', m_size |-> m_size',
              m_empty_key |-> m_empty_key']

Become(t) ==
    /\ m_buckets' = t.m_buckets
    /\ m_size' = t.m_size
    /\ m_empty_key' = t.m_empty_key

\* the last call made on the table: its name, its arguments (key, val, or the
\* count in idx), its result (a slot in idx, a flag) and the bucket count it
\* found
\* found, the exception it ended with (err) and whether it acquired a new
\* slot array (alloc)
CallX(op, key, val, idx, flag, err, alloc) ==
    [op |-> op, key |-> key, val |-> val, idx |-> idx, flag |-> flag,
     cap |-> bucket_count(this), err |-> err, alloc |-> alloc]

Call(op, key, val, idx, flag) ==
    CallX(op, key, val, idx, flag, "none", FALSE)

\* hash_map(size_type bucket_count): the empty key is key_type()
Init ==
    /\ \E h \in Hints : m_buckets = hash_map(h, key_type).m_buckets
    /\ m_size = 0
    /\ m_empty_key = key_type
    /\ call = Call("ctor", 0, 0, 0, FALSE)
    /\ ub = FALSE
    /\ erasing = NoErase
    /\ reserved = NoReserve

\* insert(value) and emplace(key, value): both are emplace_impl(key, value)
Insert(k, v) ==
    /\ ~ub
    /\ erasing = NoErase
    /\ UNCHANGED <<erasing, reserved>>
    /\ \E r \in {emplace_impl(this, k, v)} :
          /\ Become(r.table)
          /\ call' = CallX("insert", k, v, r.idx, r.inserted, "none",
                            rehash_due(this))
    /\ UNCHANGED ub

\* insert or emplace whose growth rehash fails to allocate
InsertBadAlloc(k, v) ==
    /\ ~ub
    /\ erasing = NoErase
    /\ UNCHANGED <<erasing, reserved>>
    /\ rehash_due(this)
    /\ \E t \in {emplace_impl_bad_alloc(this, k, v)} : Become(t)
    /\ call' = CallX("insert", k, v, 0, FALSE, "bad_alloc", FALSE)
    /\ UNCHANGED ub

\* operator[]: emplace_impl(key) with no value arguments builds T()
Subscript(k) ==
    /\ ~ub
    /\ erasing = NoErase
    /\ UNCHANGED <<erasing, reserved>>
    /\ \E r \in {emplace_impl(this, k, 0)} :
          /\ Become(r.table)
          /\ call' = CallX("subscript", k, 0, r.idx, r.inserted, "none",
                            rehash_due(this))
    /\ UNCHANGED ub

\* find on a table without slots reads m_buckets[hash] out of bounds
Find(k) ==
    /\ ~ub
    /\ erasing = NoErase
    /\ UNCHANGED <<erasing, reserved>>
    /\ IF key_to_idx(this, k) >= bucket_count(this)
       THEN /\ ub' = TRUE
            /\ call' = Call("find", k, 0, 0, FALSE)
       ELSE /\ ub' = ub
            /\ \E it \in {find_impl(this, k)} :
                  call' = Call("find", k, 0, it, it # end(this))
    /\ UNCHANGED <<m_buckets, m_size, m_empty_key>>

\* at(key): the value of a present key, std::out_of_range for an absent one
At(k) ==
    /\ ~ub
    /\ erasing = NoErase
    /\ UNCHANGED <<erasing, reserved>>
    /\ IF key_to_idx(this, k) >= bucket_count(this)
       THEN /\ ub' = TRUE
            /\ call' = Call("at", k, 0, 0, FALSE)
            /\ UNCHANGED <<m_buckets, m_size, m_empty_key>>
       ELSE /\ ub' = ub
            /\ \E r \in {at_impl(this, k)} :
                  /\ Become(r.table)
                  /\ call' = CallX("at", k, r.val, 0, r.found,
                                   IF r.found THEN "none" ELSE "out_of_range",
                                   FALSE)

Count(k) ==
    /\ ~ub
    /\ erasing = NoErase
    /\ UNCHANGED <<erasing, reserved>>
    /\ IF key_to_idx(this, k) >= bucket_count(this)
       THEN /\ ub' = TRUE
            /\ call' = Call("count", k, 0, 0, FALSE)
       ELSE /\ ub' = ub
            /\ call' = Call("count", k, 0, count_impl(this, k),
                            count_impl(this, k) = 1)
    /\ UNCHANGED <<m_buckets, m_size, m_empty_key>>

\* erase(key) starts with the same find
EraseKey(k) ==
    /\ ~ub
    /\ erasing = NoErase
    /\ UNCHANGED <<erasing, reserved>>
    /\ IF key_to_idx(this, k) >= bucket_count(this)
       THEN /\ ub' = TRUE
            /\ call' = Call("erase", k, 0, 0, FALSE)
            /\ UNCHANGED <<m_buckets, m_size, m_empty_key>>
       ELSE /\ ub' = ub
            /\ \E r \in {erase_impl_key(this, k)} :
                  /\ Become(r.table)
                  /\ call' = Call("erase", k, 0, find_impl(this, k), r.ret = 1)

\* erase(iterator), the iterator referring to an occupied slot
EraseIt(i) ==
    /\ ~ub
    /\ erasing = NoErase
    /\ UNCHANGED <<erasing, reserved>>
    /\ i < bucket_count(this)
    /\ slot(this, i).first # m_empty_key
    /\ \E t \in {erase_impl_it(this, i)} : Become(t)
    /\ call' = Call("erase_it", slot(this, i).first, 0, i, TRUE)
    /\ UNCHANGED ub

Clear ==
    /\ ~ub
    /\ erasing = NoErase
    /\ UNCHANGED <<erasing, reserved>>
    /\ \E t \in {clear(this)} : Become(t)
    /\ call' = Call("clear", 0, 0, 0, FALSE)
    /\ UNCHANGED ub

Rehash(n) ==
    /\ ~ub
    /\ erasing = NoErase
    /\ UNCHANGED <<erasing, reserved>>
    /\ \E t \in {rehash(this, n)} : Become(t)
    /\ call' = CallX("rehash", 0, 0, n, FALSE, "none", TRUE)
    /\ UNCHANGED ub

\* rehash whose allocation of the new slot array fails
RehashBadAlloc(n) ==
    /\ ~ub
    /\ erasing = NoErase
    /\ UNCHANGED <<erasing, reserved>>
    /\ \E t \in {rehash_bad_alloc(this, n)} : Become(t)
    /\ call' = CallX("rehash", 0, 0, n, FALSE, "bad_alloc", FALSE)
    /\ UNCHANGED ub

Reserve(n) ==
    /\ ~ub
    /\ erasing = NoErase
    /\ UNCHANGED <<erasing, reserved>>
    /\ \E t \in {reserve(this, n)} : Become(t)
    /\ call' = CallX("reserve", 0, 0, n, FALSE, "none", TRUE)
    /\ UNCHANGED ub

\* reserve whose allocation of the new slot array fails
ReserveBadAlloc(n) ==
    /\ ~ub
    /\ erasing = NoErase
    /\ UNCHANGED <<erasing, reserved>>
    /\ \E t \in {reserve_bad_alloc(this, n)} : Become(t)
    /\ call' = CallX("reserve", 0, 0, n, FALSE, "bad_alloc", FALSE)
    /\ UNCHANGED ub

\* m.swap(other) with other a table just built by hash_map()
Swap ==
    /\ ~ub
    /\ erasing = NoErase
    /\ UNCHANGED <<erasing, reserved>>
    /\ \E t \in {swap(this, hash_map_default)[1]} : Become(t)
    /\ call' = Call("swap", 0, 0, 0, FALSE)
    /\ UNCHANGED ub

\* m.swap(other) with other built by hash_map(m, n), the copy constructor
SwapCopy(n) ==
    /\ ~ub
    /\ erasing = NoErase
    /\ UNCHANGED <<erasing, reserved>>
    /\ \E t \in {swap(this, hash_map_copy(this, n))[1]} : Become(t)
    /\ call' = Call("swap_copy", 0, 0, 0, FALSE)
    /\ UNCHANGED ub

Next ==
    \/ \E a \in InsertArgs : Insert(a[1], a[2])
    \/ \E k \in Keys : Subscript(k)
    \/ \E k \in Keys : Find(k)
    \/ \E k \in Keys : EraseKey(k)
    \/ \E i \in 0 .. (bucket_count(this) - 1) : EraseIt(i)
    \/ Clear
    \/ \E n \in RehashCounts : Rehash(n)
    \/ \E n \in ReserveCounts : Reserve(n)
    \/ Swap
    \/ \E n \in CopyCounts : SwapCopy(n)

Spec == Init /\ [][Next]_vars

\* a full traversal from begin() to end()
Iterate ==
    /\ ~ub
    /\ erasing = NoErase
    /\ UNCHANGED <<erasing, reserved>>
    /\ call' = Call("iterate", 0, 0, Len(traverse(this, begin(this))),
                    begin(this) = end(this))
    /\ UNCHANGED <<m_buckets, m_size, m_empty_key, ub>>

\* the calls of Spec together with the read-only calls and the calls that
\* end in std::bad_alloc
NextFull ==
    \/ Next
    \/ \E k \in Keys : At(k)
    \/ \E k \in Keys : Count(k)
    \/ Iterate
    \/ \E a \in InsertArgs : InsertBadAlloc(a[1], a[2])
    \/ \E n \in RehashCounts : RehashBadAlloc(n)
    \/ \E n \in ReserveCounts : ReserveBadAlloc(n)

SpecFull == Init /\ [][NextFull]_vars

\* ------------------------------------------------------------- properties
Slots(t) == 0 .. (Len(t.m_buckets) - 1)
Occupied(t, p) == t.m_buckets[p + 1].first # t.m_empty_key
Home(t, k) == k % Len(t.m_buckets)
Holds(t, k) == \E p \in Slots(t) : t.m_buckets[p + 1].first = k
Entries(t) == {t.m_buckets[p + 1] : p \in {q \in Slots(t) : Occupied(t, q)}}
IsPowerOfTwo(n) == \E i \in 0 .. (W - 1) : n = 2 ^ i
Pow2AtLeast(n) ==
    CHOOSE c \in {2 ^ i : i \in 0 .. (W - 1)} :
        /\ c >= n
        /\ \A d \in {2 ^ i : i \in 0 .. (W - 1)} : d >= n => d >= c

\* find(k) returns a slot that holds key k and value v
Finds(t, k, v) ==
    /\ Len(t.m_buckets) > 0
    /\ find_impl(t, k) # end(t)
    /\ slot(t, find_impl(t, k)) = [first |-> k, second |-> v]

\* find(k) returns end()
FindsNothing(t, k) ==
    /\ Len(t.m_buckets) > 0
    /\ find_impl(t, k) = end(t)

Erased(c) == c.op \in {"erase", "erase_it"} /\ c.flag

\* C1: every occupied slot p holding key k has no empty slot among
\* home(k), home(k)+1, ..., p (indices modulo the capacity).
C1_ProbeContiguity ==
    \A p \in Slots(this) :
        Occupied(this, p) =>
            LET h == Home(this, slot(this, p).first)
                d == (p - h) % Len(m_buckets)
            IN  \A j \in 0 .. d : Occupied(this, (h + j) % Len(m_buckets))

\* an erase has just moved an entry into the slot it vacated
C1_Witness ==
    /\ Erased(call)
    /\ Occupied(this, call.idx)
    /\ \E p \in Slots(this) :
          Occupied(this, p) /\ Home(this, slot(this, p).first) # p

\* C2: after erase(k) of a present key, find(k) returns end() and every other
\* key found before is still found with the same value, also when the run that
\* is shifted wraps from the last slot to slot 0.
C2_DeletionComplete ==
    [][Erased(call') =>
         /\ FindsNothing(this_next, call'.key)
         /\ \A k \in Keys \ {call'.key} : \A v \in Values :
               Finds(this, k, v) => Finds(this_next, k, v)]_vars

\* an erase of the key in the last slot has pulled an entry back from slot 0
C2_Witness ==
    /\ Erased(call)
    /\ Len(m_buckets) >= 8
    /\ call.idx = Len(m_buckets) - 1
    /\ Occupied(this, call.idx)
    /\ \E v \in Values : Finds(this, slot(this, call.idx).first, v)

Removes(c, k) ==
    \/ c.op \in {"erase", "erase_it"} /\ c.key = k
    \/ c.op \in {"clear", "swap", "swap_copy"}

\* C3: once insert(k, v) has returned inserted = true, find(k) returns a slot
\* holding k and v after every later call, until k is erased or the table is
\* cleared or swapped away.
C3_RoundTrip ==
    [][\A k \in Keys : \A v \in Values :
         /\ (call'.op = "insert" /\ call'.key = k /\ call'.val = v
               /\ call'.flag) => Finds(this_next, k, v)
         /\ (Finds(this, k, v) /\ ~Removes(call', k))
               => Finds(this_next, k, v)]_vars

\* an insert that grew the table, with an older entry of value 1 still found
\* away from the inserted key
C3_Witness ==
    /\ call.op = "insert"
    /\ call.flag
    /\ call.cap >= 8
    /\ call.cap < Len(m_buckets)
    /\ \E k \in Keys \ {call.key} : Finds(this, k, 1)

\* C4: size() equals the number of slots whose key differs from empty_key.
C4_SizeInvariant ==
    m_size = Cardinality({p \in Slots(this) : Occupied(this, p)})

\* an erase by iterator that left several entries behind
C4_Witness ==
    /\ call.op = "erase_it"
    /\ m_size >= 3

C6_CapacityInvariant ==
    /\ IsPowerOfTwo(Len(m_buckets))
    /\ Len(m_buckets) >= 8

\* C7: insert of a key already present returns inserted = false and a slot
\* holding that key, and leaves the key's value and size() as they were, also
\* when the call grows the table.
C7_DuplicateInsert ==
    [][(call'.op = "insert" /\ Holds(this, call'.key)) =>
         /\ ~call'.flag
         /\ call'.idx \in Slots(this_next)
         /\ slot(this_next, call'.idx).first = call'.key
         /\ \A v \in Values :
               Finds(this, call'.key, v) => Finds(this_next, call'.key, v)
         /\ \E v \in Values : Finds(this_next, call'.key, v)
         /\ m_size' = m_size]_vars

\* a duplicate insert with another value grew the table and kept the old value
C7_Witness ==
    /\ call.op = "insert"
    /\ ~call.flag
    /\ call.val = 1
    /\ call.cap >= 8
    /\ call.cap < Len(m_buckets)
    /\ Finds(this, call.key, 0)

\* C8: rehash(n) and reserve(n) leave the set of (key, value) entries and
\* size() as they were.
C8_RehashPreserves ==
    [][call'.op \in {"rehash", "reserve"} =>
         /\ Entries(this_next) = Entries(this)
         /\ \A e \in Entries(this) : Finds(this_next, e.first, e.second)
         /\ m_size' = m_size]_vars

\* a reserve moved a table of several entries, one of them of value 1, to
\* another capacity
C8_Witness ==
    /\ call.op = "reserve"
    /\ call.cap # Len(m_buckets)
    /\ m_size >= 3
    /\ \E e \in Entries(this) : e.second = 1

\* C9: an insert or operator[] made when size + 1 > capacity * 0.5 leaves
\* exactly 4 times the capacity and a load factor <= 0.5; one made when
\* size + 1 <= capacity * 0.5 leaves the capacity unchanged.
C9_Growth ==
    [][call'.op \in {"insert", "subscript"} =>
         IF 2 * (m_size + 1) > Len(m_buckets)
         THEN /\ Len(m_buckets') = 4 * Len(m_buckets)
              /\ 2 * m_size' <= Len(m_buckets')
         ELSE Len(m_buckets') = Len(m_buckets)]_vars

EraseItBegin(i) ==
    /\ ~ub
    /\ erasing = NoErase
    /\ Occupied(this, i)
    /\ erasing' = [pc |-> "loop", bucket |-> i, idx |-> probe_next(this, i)]
    /\ call' = Call("erase_it", slot(this, i).first, 0, i, TRUE)
    /\ UNCHANGED <<m_buckets, m_size, m_empty_key, ub, reserved>>

\* erase(key): find, then the same loop when the key is present
EraseKeyBegin(k) ==
    /\ ~ub
    /\ erasing = NoErase
    /\ IF key_to_idx(this, k) >= bucket_count(this)
       THEN /\ ub' = TRUE
            /\ call' = Call("erase", k, 0, 0, FALSE)
            /\ UNCHANGED <<erasing, reserved>>
       ELSE /\ ub' = ub
            /\ \E it \in {find_impl(this, k)} :
                  /\ call' = Call("erase", k, 0, it, it # end(this))
                  /\ erasing' = IF it # end(this)
                                THEN [pc |-> "loop", bucket |-> it,
                                      idx |-> probe_next(this, it)]
                                ELSE NoErase
    /\ UNCHANGED <<m_buckets, m_size, m_empty_key, reserved>>

\* one iteration of the loop
EraseStep ==
    /\ erasing.pc = "loop"
    /\ \E r \in {erase_step(this, erasing.bucket, erasing.idx)} :
          /\ Become(r.table)
          /\ erasing' = IF r.done THEN NoErase
                        ELSE [pc |-> "loop", bucket |-> r.bucket, idx |-> r.idx]
    /\ UNCHANGED <<call, ub, reserved>>

\* the calls of Spec that change the table, with erase run stepwise
NextSteps ==
    \/ \E a \in InsertArgs : Insert(a[1], a[2])
    \/ \E k \in Keys : EraseKeyBegin(k)
    \/ \E i \in 0 .. (bucket_count(this) - 1) : EraseItBegin(i)
    \/ EraseStep
    \/ Clear
    \/ \E n \in RehashCounts : Rehash(n)
    \/ \E n \in ReserveCounts : Reserve(n)
    \/ Swap
    \/ \E n \in CopyCounts : SwapCopy(n)

SpecSteps == Init /\ [][NextSteps]_vars

\* ------------------------------------------- insert followed by erase
\* insert(k, v) of an absent key that does not grow the table, followed
\* immediately by erase(k): idx is the slot the insert returned, flag whether
\* the insert inserted and the erase returned 1
InsertErase(k, v) ==
    /\ ~ub
    /\ erasing = NoErase
    /\ UNCHANGED <<erasing, reserved>>
    /\ bucket_count(this) > 0
    /\ find_impl(this, k) = end(this)
    /\ ~rehash_due(this)
    /\ \E r \in {emplace_impl(this, k, v)} :
          \E e \in {erase_impl_key(r.table, k)} :
              /\ Become(e.table)
              /\ call' = Call("insert_erase", k, v, r.idx,
                              r.inserted /\ e.ret = 1)
    /\ UNCHANGED ub

NextTrip ==
    \/ Next
    \/ \E a \in InsertArgs : InsertErase(a[1], a[2])

SpecTrip == Init /\ [][NextTrip]_vars

\* ------------------------------------------ calls that follow a reserve
ReserveCall(n) ==
    /\ ~ub
    /\ erasing = NoErase
    /\ \E t \in {reserve(this, n)} : Become(t)
    /\ call' = CallX("reserve", 0, 0, n, FALSE, "none", TRUE)
    /\ reserved' = IF size(this) <= n THEN n ELSE NoReserve
    /\ UNCHANGED <<ub, erasing>>

InsertReserved(k, v) ==
    /\ ~ub
    /\ erasing = NoErase
    /\ \E r \in {emplace_impl(this, k, v)} :
          /\ Become(r.table)
          /\ call' = CallX("insert", k, v, r.idx, r.inserted, "none",
                            rehash_due(this))
          /\ reserved' = IF reserved # NoReserve /\ size(r.table) <= reserved
                         THEN reserved
                         ELSE NoReserve
    /\ UNCHANGED <<ub, erasing>>

EraseReserved(k) ==
    /\ ~ub
    /\ erasing = NoErase
    /\ IF key_to_idx(this, k) >= bucket_count(this)
       THEN /\ ub' = TRUE
            /\ call' = Call("erase", k, 0, 0, FALSE)
            /\ UNCHANGED <<m_buckets, m_size, m_empty_key>>
       ELSE /\ ub' = ub
            /\ \E r \in {erase_impl_key(this, k)} :
                  /\ Become(r.table)
                  /\ call' = Call("erase", k, 0, find_impl(this, k), r.ret = 1)
    /\ UNCHANGED <<erasing, reserved>>

NextReserve ==
    \/ \E n \in ReservedCounts : ReserveCall(n)
    \/ \E a \in InsertArgs : InsertReserved(a[1], a[2])
    \/ \E k \in Keys : EraseReserved(k)

SpecReserve == Init /\ [][NextReserve]_vars

\* ------------------------------------- compute_closest_capacity on its own
\* every size_type argument, and the call made with it: op names the call,
\* idx is min_capacity, val the value returned, err "assert" when the call
\* aborted instead of returning
PolicyCall(op, min_capacity, ret, err) ==
    [op |-> op, key |-> 0, val |-> ret, idx |-> min_capacity, flag |-> FALSE,
     cap |-> 0, err |-> err, alloc |-> FALSE]

InitPolicy ==
    /\ ub = FALSE
    /\ erasing = NoErase
    /\ reserved = NoReserve
    /\ m_buckets = hash_map_default.m_buckets
    /\ m_size = 0
    /\ m_empty_key = key_type
    /\ \E m \in 0 .. (SizeMod - 1) : call = PolicyCall("argument", m, 0, "none")

\* the call returns (always when NDEBUG is defined, and in every build when
\* the assert is not reached)
ClosestCapacity ==
    /\ call.op = "argument"
    /\ UNCHANGED <<erasing, reserved>>
    /\ call' = PolicyCall("compute_closest_capacity", call.idx,
                          compute_closest_capacity(call.idx), "none")
    /\ UNCHANGED <<m_buckets, m_size, m_empty_key, ub>>

\* the call aborts in assert(false && ...), in a build without NDEBUG
ClosestCapacityAssert ==
    /\ call.op = "argument"
    /\ UNCHANGED <<erasing, reserved>>
    /\ closest_capacity_asserts(call.idx)
    /\ call' = PolicyCall("compute_closest_capacity", call.idx, 0, "assert")
    /\ UNCHANGED <<m_buckets, m_size, m_empty_key, ub>>

NextPolicy == ClosestCapacity \/ ClosestCapacityAssert

SpecPolicy == InitPolicy /\ [][NextPolicy]_vars

C13_ClosestCapacity ==
    (call.op = "compute_closest_capacity" /\ call.idx <= highest_capacity)
        => call.val = Pow2AtLeast(call.idx)

\* C14: a call of compute_closest_capacity with min_capacity above the
\* largest representable power of two ends in the fatal state and returns no
\* capacity to the table
C14_OverflowFailsFast ==
    (call.op = "compute_closest_capacity" /\ call.idx > highest_capacity)
        => call.err = "assert"

\* C15: no find, at, count, erase or clear call, and no insert, emplace or
\* operator[] call that leaves size <= capacity * 0.5 on the current array,
\* allocates or changes bucket_count()
C15_NoAllocation ==
    [][~ub' =>
          /\ call'.op \in {"find", "at", "count", "erase", "erase_it", "clear"}
                => (~call'.alloc /\ Len(m_buckets') = Len(m_buckets))
          /\ (/\ call'.op \in {"insert", "subscript"}
              /\ call'.err = "none"
              /\ m_size' * LoadDen <= Len(m_buckets) * LoadNum)
                => (~call'.alloc /\ Len(m_buckets') = Len(m_buckets))]_vars

\* C16: stepping an iterator from begin() with ++ until it equals end()
\* terminates, visits every occupied slot exactly once in increasing slot
\* index and never an empty slot, visits size() slots, and begin() = end()
\* exactly when the table is empty
C16_Iteration ==
    LET v == traverse(this, begin(this))
    IN  /\ \A i \in 1 .. Len(v) : v[i] \in Slots(this) /\ Occupied(this, v[i])
        /\ \A i \in 1 .. Len(v) : \A j \in 1 .. Len(v) : i < j => v[i] < v[j]
        /\ \A p \in Slots(this) :
              Occupied(this, p) => \E i \in 1 .. Len(v) : v[i] = p
        /\ Len(v) = m_size
        /\ (begin(this) = end(this)) <=> (m_size = 0)
        /\ call.op = "iterate" =>
              (call.idx = m_size /\ call.flag = (m_size = 0))

C16_Witness ==
    /\ call.op = "iterate"
    /\ call.idx >= 3
    /\ ~Occupied(this, 0)
    /\ Occupied(this, Len(m_buckets) - 1)
    /\ \E p \in Slots(this) : \E q \in Slots(this) :
          /\ p + 1 < q
          /\ Occupied(this, p)
          /\ Occupied(this, q)
          /\ \A r \in (p + 1) .. (q - 1) : ~Occupied(this, r)

\* the table holds only keys of home h, in the slots h, h+1, ... (modulo the
\* capacity) that inserting them one after the other fills
ChainAt(t, h) ==
    \A p \in Slots(t) :
        /\ Occupied(t, p) <=> (p - h) % Len(t.m_buckets) < t.m_size
        /\ Occupied(t, p) => Home(t, slot(t, p).first) = h

\* C17: in a table holding only keys k1..kn of one home h, inserted in that
\* order without growth, ki is in slot (h + i - 1) mod capacity; erasing ki
\* moves every later kj one slot back, leaves the earlier ones in place,
\* leaves slot (h + n - 1) mod capacity empty, and find of each remaining key
\* returns its new slot
C17_ChainShift ==
    [][\A h \in Slots(this) :
          LET cap == Len(m_buckets)
              n == m_size
              at(j) == (h + j) % cap
          IN  ChainAt(this, h) =>
                /\ (/\ call'.op \in {"insert", "subscript"}
                    /\ call'.err = "none"
                    /\ call'.flag
                    /\ Len(m_buckets') = cap
                    /\ Home(this, call'.key) = h)
                      => /\ call'.idx = at(n)
                         /\ slot(this_next, at(n)).first = call'.key
                         /\ \A j \in 0 .. (n - 1) :
                               slot(this_next, at(j)) = slot(this, at(j))
                         /\ ChainAt(this_next, h)
                /\ Erased(call') =>
                      LET i == (call'.idx - h) % cap
                      IN  /\ i < n
                          /\ m_size' = n - 1
                          /\ \A j \in 0 .. (i - 1) :
                                /\ slot(this_next, at(j)) = slot(this, at(j))
                                /\ find_impl(this_next, slot(this, at(j)).first)
                                      = at(j)
                          /\ \A j \in (i + 1) .. (n - 1) :
                                /\ slot(this_next, at(j - 1)) = slot(this, at(j))
                                /\ find_impl(this_next, slot(this, at(j)).first)
                                      = at(j - 1)
                          /\ ~Occupied(this_next, at(n - 1))
                          /\ ChainAt(this_next, h)]_vars

\* capacity 8 held 1, 9, 17 in slots 1, 2, 3 and 9 has been erased
C17_Witness ==
    /\ call.op = "erase"
    /\ call.key = 9
    /\ call.flag
    /\ call.idx = 2
    /\ Len(m_buckets) = 8
    /\ m_size = 2
    /\ slot(this, 1).first = 1
    /\ slot(this, 2).first = 17
    /\ ~Occupied(this, 3)

\* C18: every reachable bucket array, whatever the capacity hint and the
\* calls made, contains at least one empty slot, and no probe of find,
\* insert, emplace or erase indexes outside 0 .. capacity - 1
C18_ProbeTermination ==
    /\ ~ub
    /\ \E p \in Slots(this) : ~Occupied(this, p)

\* C1's contiguity, of any table
Contiguous(t) ==
    \A p \in Slots(t) :
        Occupied(t, p) =>
            LET h == Home(t, slot(t, p).first)
                d == (p - h) % Len(t.m_buckets)
            IN  \A j \in 0 .. d : Occupied(t, (h + j) % Len(t.m_buckets))

\* C19: in every intermediate state of erase_impl (after each backward copy
\* and before the final vacating write) every occupied slot is reachable from
\* its key's home without crossing an empty slot, and each entry moved goes
\* to a slot lying cyclically in [home, old position)
C19_MidDeletion ==
    [][/\ erasing'.pc = "loop" => Contiguous(this_next)
       /\ (/\ erasing.pc = "loop"
           /\ erasing'.pc = "loop"
           /\ erasing'.bucket # erasing.bucket)
             => LET from == erasing.idx
                    to == erasing.bucket
                    cap == Len(m_buckets)
                    h == Home(this, slot(this, from).first)
                IN  /\ erasing'.bucket = from
                    /\ (to - h) % cap < (from - h) % cap
                    /\ slot(this_next, to) = slot(this, from)
                    /\ \A p \in Slots(this) :
                          p # to => slot(this_next, p) = slot(this, p)
       /\ (/\ erasing.pc = "loop"
           /\ erasing'.pc = "loop"
           /\ erasing'.bucket = erasing.bucket) => this_next = this]_vars

\* two entries of a run have been moved back and the vacating write is still
\* to come: the last entry moved is in two slots
C19_Witness ==
    /\ erasing.pc = "loop"
    /\ Len(m_buckets) >= 8
    /\ erasing.bucket = (call.idx + 2) % Len(m_buckets)
    /\ slot(this, erasing.bucket).first
          = slot(this, (call.idx + 1) % Len(m_buckets)).first
    /\ Occupied(this, erasing.bucket)
    /\ ~Occupied(this, erasing.idx)

\* C20: after any sequence of completed insert, emplace, operator[], erase,
\* clear, rehash and reserve calls no key other than the empty key is in
\* more than one slot; the backward-shift copies of erase leave no key in
\* two slots once erase has returned
C20_KeyUniqueness ==
    \A p \in Slots(this) : \A q \in Slots(this) :
        (p # q /\ Occupied(this, p) /\ Occupied(this, q))
            => slot(this, p).first # slot(this, q).first

\* an erase has returned after moving entries back: a displaced entry sits
\* right behind the erased position and the slot behind it has been vacated
C20_Witness ==
    /\ Erased(call)
    /\ Len(m_buckets) >= 8
    /\ LET cap == Len(m_buckets)
           p == (call.idx + 1) % cap
       IN  /\ Occupied(this, call.idx)
           /\ Occupied(this, p)
           /\ Home(this, slot(this, p).first) # p
           /\ ~Occupied(this, (p + 1) % cap)

\* the key of every slot
KeysOf(t) == [p \in Slots(t) |-> slot(t, p).first]

\* C21: on any reachable table, when k is absent and insert(k, v) does not
\* grow the table, insert(k, v) followed immediately by erase(k) restores the
\* key of every slot and size(): no other entry is relocated and the slot
\* used is empty again
C21_InsertEraseRoundTrip ==
    [][call'.op = "insert_erase" =>
          /\ call'.flag
          /\ KeysOf(this_next) = KeysOf(this)
          /\ m_size' = m_size
          /\ ~Occupied(this_next, call'.idx)]_vars

\* the key was placed behind other entries of its run and in front of a
\* further entry, which the erase had to leave in place
C21_Witness ==
    /\ call.op = "insert_erase"
    /\ Len(m_buckets) >= 8
    /\ Home(this, call.key) # call.idx
    /\ Occupied(this, Home(this, call.key))
    /\ Occupied(this, (call.idx + 1) % Len(m_buckets))

\* C22: after reserve(n) on a table with size <= n, every insert (of a new
\* or of an already-present key) and every erase that keeps size <= n leaves
\* bucket_count() unchanged
C22_ReserveGuarantee ==
    [][(/\ reserved # NoReserve
        /\ call'.op \in {"insert", "erase"}
        /\ ~ub'
        /\ m_size' <= reserved)
          => Len(m_buckets') = Len(m_buckets)]_vars

====
